---- MODULE Spec2Model ----
(***************************************************************************)
(* A model of pymc3/distributions/transforms.py: the transforms between a *)
(* constrained support and the unconstrained reals, the Chain combinator  *)
(* and the TransformedDistribution adapter.                                *)
(*                                                                         *)
(* Numbers are exact.  A scalar is a record [n, d, ln, ld, h] that stands  *)
(* for the real  n/d + lg(ln/ld) + h*(pi/2),  where n/d is a rational in   *)
(* lowest terms, ln/ld is a positive rational with ln and ld odd and       *)
(* coprime, and lg is the logarithm whose inverse is aet.exp.  aet.exp is  *)
(* modelled as the order isomorphism from the additive reals onto the      *)
(* multiplicative positive reals that takes 1 to 2, and aet.log as its     *)
(* inverse, so that every algebraic identity of                            *)
(* exp/log holds exactly and is computed, not assumed.  Operators are      *)
(* partial: each is used only where its result is representable.           *)
(***************************************************************************)
EXTENDS Integers, Sequences, FiniteSets, TLC

----------------------------------------------------------------------------
(* Exact scalar arithmetic (the numeric engine's scalar primitives).       *)

Abs(k) == IF k < 0 THEN -k ELSE k

RECURSIVE GCD(_, _)
GCD(a, b) == IF b = 0 THEN Abs(a) ELSE GCD(b, a % b)

RECURSIVE Pow(_, _)
Pow(b, e) == IF e = 0 THEN 1 ELSE b * Pow(b, e - 1)

\* the exponent of 2 in a positive integer, and its odd part
RECURSIVE V2(_)
V2(k) == IF k % 2 = 0 THEN 1 + V2(k \div 2) ELSE 0

OddPart(k) == k \div Pow(2, V2(k))

\* n/d + lg(ln/ld) + h*(pi/2) in normal form (d, ln, ld > 0)
Num(n, d, ln, ld, h) ==
    LET s  == IF d < 0 THEN -1 ELSE 1
        g  == GCD(n, d)
        lg == GCD(ln, ld)
    IN  [n |-> s * (n \div g), d |-> s * (d \div g),
         ln |-> ln \div lg, ld |-> ld \div lg, h |-> h]

Rat(n, d) == Num(n, d, 1, 1, 0)
Whole(k) == Rat(k, 1)
HalfPi(k) == Num(0, 1, 1, 1, k)

IsRat(a) == a.ln = 1 /\ a.ld = 1 /\ a.h = 0
IsInt(a) == IsRat(a) /\ a.d = 1

add(a, b) == Num(a.n * b.d + b.n * a.d, a.d * b.d, a.ln * b.ln, a.ld * b.ld, a.h + b.h)
neg(a) == Num(-a.n, a.d, a.ld, a.ln, -a.h)
sub(a, b) == add(a, neg(b))

\* k * a for an integer k
Scale(k, a) ==
    IF k >= 0 THEN Num(k * a.n, a.d, Pow(a.ln, k), Pow(a.ld, k), k * a.h)
    ELSE Num(k * a.n, a.d, Pow(a.ld, -k), Pow(a.ln, -k), k * a.h)

\* a product is representable when both factors are rational or one is an integer
mul(a, b) ==
    IF IsRat(a) /\ IsRat(b) THEN Rat(a.n * b.n, a.d * b.d)
    ELSE IF IsInt(a) THEN Scale(a.n, b)
    ELSE Scale(b.n, a)

\* a quotient by a nonzero rational; the dividend is rational, or is a
\* multiple of pi/2 divided by an integer that divides it
true_div(a, b) ==
    IF IsRat(a) THEN Rat(a.n * b.d, a.d * b.n)
    ELSE Num(a.n * b.d, a.d * b.n, 1, 1, a.h \div b.n)

\* -1, 0, 1: the sign of n/d + lg(ln/ld) is that of 2^n * (ln/ld)^d - 1
Sign(a) ==
    IF a.ln = 1 /\ a.ld = 1 /\ a.n = 0 THEN (IF a.h > 0 THEN 1 ELSE IF a.h < 0 THEN -1 ELSE 0)
    ELSE LET up == Pow(a.ln, a.d) * (IF a.n > 0 THEN Pow(2, a.n) ELSE 1)
             dn == Pow(a.ld, a.d) * (IF a.n < 0 THEN Pow(2, -a.n) ELSE 1)
         IN  IF up > dn THEN 1 ELSE IF up < dn THEN -1 ELSE 0

Less(a, b) == Sign(sub(a, b)) < 0
Leq(a, b) == Sign(sub(a, b)) <= 0
maximum(a, b) == IF Less(a, b) THEN b ELSE a

\* aet.exp on k + lg(r), k an integer: the rational 2^k * r
exp(a) ==
    IF a.n >= 0 THEN Rat(Pow(2, a.n) * a.ln, a.ld)
    ELSE Rat(a.ln, Pow(2, -a.n) * a.ld)

\* aet.log on a positive rational
log(a) == Num(V2(a.n) - V2(a.d), 1, OddPart(a.n), OddPart(a.d), 0)

abs_(a) == IF Sign(a) < 0 THEN neg(a) ELSE a

\* aet.nnet.sigmoid and aet.nnet.softplus, by their definitions
sigmoid(a) == true_div(Whole(1), add(Whole(1), exp(neg(a))))
softplus(a) == log(add(Whole(1), exp(a)))

\* aet.sin, aet.cos and aet.arctan2 on the multiples of pi/2
sin(a) == Whole(CASE a.h % 4 = 0 -> 0 [] a.h % 4 = 1 -> 1 [] a.h % 4 = 2 -> 0 [] OTHER -> -1)
cos(a) == Whole(CASE a.h % 4 = 0 -> 1 [] a.h % 4 = 1 -> 0 [] a.h % 4 = 2 -> -1 [] OTHER -> 0)
arctan2(s, c) ==
    HalfPi(CASE s.n = 0 /\ c.n > 0 -> 0 [] s.n > 0 /\ c.n = 0 -> 1
             [] s.n = 0 /\ c.n < 0 -> 2 [] OTHER -> -1)

----------------------------------------------------------------------------
(* Tensors: a shape and the elements in row-major order.                   *)

RECURSIVE Size(_)
Size(shape) == IF shape = <<>> THEN 1 ELSE Head(shape) * Size(Tail(shape))

Tensor(shape, data) == [shape |-> shape, data |-> data]
Scalar(a) == Tensor(<<>>, <<a>>)
Vec(xs) == Tensor(<<Len(xs)>>, xs)

ndim(t) == Len(t.shape)
Front(s) == SubSeq(s, 1, Len(s) - 1)
Last(s) == s[Len(s)]
Reverse(s) == [i \in 1..Len(s) |-> s[Len(s) + 1 - i]]

RECURSIVE SumSeq(_)
SumSeq(xs) == IF xs = <<>> THEN Whole(0) ELSE add(Head(xs), SumSeq(Tail(xs)))

RECURSIVE MaxSeq(_)
MaxSeq(xs) == IF Len(xs) = 1 THEN xs[1] ELSE maximum(Head(xs), MaxSeq(Tail(xs)))

\* the multi-index (0-based) of flat position k (0-based), and back
Stride(shape, i) == Size(SubSeq(shape, i + 1, Len(shape)))
Unravel(k, shape) == [i \in 1..Len(shape) |-> (k \div Stride(shape, i)) % shape[i]]
RECURSIVE Ravel(_, _)
Ravel(idx, shape) ==
    IF idx = <<>> THEN 0
    ELSE Head(idx) * Size(Tail(shape)) + Ravel(Tail(idx), Tail(shape))

\* an elementwise unary operation
Elemwise(F(_), t) == Tensor(t.shape, [k \in 1..Len(t.data) |-> F(t.data[k])])

\* an elementwise binary operation with numpy broadcasting
PadShape(shape, nd) == [i \in 1..nd |-> IF i <= nd - Len(shape) THEN 1 ELSE shape[i - (nd - Len(shape))]]
Broadcast(F(_, _), s, t) ==
    LET nd == IF ndim(s) > ndim(t) THEN ndim(s) ELSE ndim(t)
        ps == PadShape(s.shape, nd)
        pt == PadShape(t.shape, nd)
        sh == [i \in 1..nd |-> IF ps[i] = 1 THEN pt[i] ELSE ps[i]]
        At(u, pu, k) ==
            LET idx == Unravel(k, sh)
            IN  u.data[1 + Ravel([i \in 1..nd |-> IF pu[i] = 1 THEN 0 ELSE idx[i]], pu)]
    IN  Tensor(sh, [k \in 1..Size(sh) |-> F(At(s, ps, k - 1), At(t, pt, k - 1))])

\* x.T: the axes reversed
T(t) ==
    LET sh == Reverse(t.shape)
    IN  Tensor(sh, [k \in 1..Size(sh) |-> t.data[1 + Ravel(Reverse(Unravel(k - 1, sh)), t.shape)]])

\* aet.zeros(shape)
zeros(shape) == Tensor(shape, [k \in 1..Size(shape) |-> Whole(0)])

\* the r-th (0-based) run of the trailing axis
Row(t, r) == SubSeq(t.data, r * Last(t.shape) + 1, (r + 1) * Last(t.shape))
NRows(t) == Size(Front(t.shape))

RECURSIVE Flatten(_)
Flatten(rows) == IF rows = <<>> THEN <<>> ELSE Head(rows) \o Flatten(Tail(rows))

\* aet.sum(t), aet.sum(t, axis=-1) and aet.sum(t, axis=-1, keepdims=True)
sum_all(t) == Scalar(SumSeq(t.data))
sum_last(t) == Tensor(Front(t.shape), [r \in 1..NRows(t) |-> SumSeq(Row(t, r - 1))])
sum_last_keepdims(t) == Tensor(Front(t.shape) \o <<1>>, sum_last(t).data)

\* t[..., lo:hi] and t[..., 0]
slice_last(t, lo, hi) ==
    Tensor(Front(t.shape) \o <<hi - lo>>,
           Flatten([r \in 1..NRows(t) |-> SubSeq(Row(t, r - 1), lo + 1, hi)]))
index_last(t, i) == Tensor(Front(t.shape), [r \in 1..NRows(t) |-> Row(t, r - 1)[i + 1]])

\* aet.concatenate([s, t], axis=-1)
concatenate_last(s, t) ==
    Tensor(Front(s.shape) \o <<Last(s.shape) + Last(t.shape)>>,
           Flatten([r \in 1..NRows(s) |-> Row(s, r - 1) \o Row(t, r - 1)]))

\* aet.cumsum(t, axis=-1)
cumsum(t) ==
    Tensor(t.shape,
           Flatten([r \in 1..NRows(t) |->
                      [i \in 1..Last(t.shape) |-> SumSeq(SubSeq(Row(t, r - 1), 1, i))]]))

\* aet.inc_subtensor(x[..., lo:hi], v): a copy of x with v added into the slice
inc_subtensor_last(x, lo, hi, v) ==
    Tensor(x.shape,
           Flatten([r \in 1..NRows(x) |->
                      [i \in 1..Last(x.shape) |->
                         IF lo < i /\ i <= hi
                         THEN add(Row(x, r - 1)[i], v.data[(r - 1) * (hi - lo) + (i - lo)])
                         ELSE Row(x, r - 1)[i]]]))

\* the i-th (0-based) block along the leading axis
Inner(t) == Size(Tail(t.shape))
Block(t, i) == SubSeq(t.data, i * Inner(t) + 1, (i + 1) * Inner(t))

\* aet.sum(t, 0, keepdims=True), aet.max(t, 0, keepdims=True) and aet.sum(t, 0)
sum_0_keepdims(t) ==
    Tensor(<<1>> \o Tail(t.shape),
           [j \in 1..Inner(t) |-> SumSeq([i \in 1..Head(t.shape) |-> Block(t, i - 1)[j]])])
max_0_keepdims(t) ==
    Tensor(<<1>> \o Tail(t.shape),
           [j \in 1..Inner(t) |-> MaxSeq([i \in 1..Head(t.shape) |-> Block(t, i - 1)[j]])])
sum_0(t) == Tensor(Tail(t.shape), sum_0_keepdims(t).data)

\* t[:-1] and aet.concatenate([s, t]) along the leading axis
drop_last_0(t) ==
    Tensor(<<Head(t.shape) - 1>> \o Tail(t.shape), SubSeq(t.data, 1, Len(t.data) - Inner(t)))
concatenate(s, t) ==
    Tensor(<<Head(s.shape) + Head(t.shape)>> \o Tail(s.shape), s.data \o t.data)

\* x[idxs] and aet.advanced_set_subtensor1(x, y, idxs), idxs 0-based
advanced_subtensor1(x, idxs) ==
    Tensor(<<Len(idxs)>> \o Tail(x.shape),
           Flatten([k \in 1..Len(idxs) |-> Block(x, idxs[k])]))
advanced_set_subtensor1(x, y, idxs) ==
    Tensor(x.shape,
           Flatten([i \in 1..Head(x.shape) |->
                      IF \E k \in 1..Len(idxs) : idxs[k] = i - 1
                      THEN Block(y, (CHOOSE k \in 1..Len(idxs) : idxs[k] = i - 1) - 1)
                      ELSE Block(x, i - 1)]))

----------------------------------------------------------------------------
(* Results and the class hierarchy.                                        *)

\* a call returns a tensor or raises
Raise(e) == [exc |-> e]
IsExc(r) == "exc" \in DOMAIN r

\* class -> its base class
Base(cls) ==
    CASE cls = "Transform" -> "object"
      [] cls \in {"ElemwiseTransform", "Ordered", "SumTo1", "StickBreaking",
                  "CholeskyCovPacked", "Chain"} -> "Transform"
      [] cls = "TransformedDistribution" -> "Distribution"
      [] OTHER -> "ElemwiseTransform"

\* class -> the operations its body defines
Defines(cls) ==
    CASE cls = "Transform" -> {"forward", "backward", "jacobian_det"}
      [] cls = "ElemwiseTransform" -> {"jacobian_det"}
      [] cls = "LogOdds" -> {"forward", "backward"}
      [] cls = "TransformedDistribution" -> {"logp", "logp_nojac"}
      [] OTHER -> {"forward", "backward", "jacobian_det"}

\* the class whose body supplies `op` for an instance of `cls`
RECURSIVE Resolve(_, _)
Resolve(cls, op) == IF op \in Defines(cls) THEN cls ELSE Resolve(Base(cls), op)

\* pymc3.aesaraf.floatX under the default float configuration
floatX(t) == t

\* pymc3.math.invlogit(x, eps) and pymc3.math.logit
invlogit(a, eps) ==
    add(true_div(sub(Whole(1), mul(Whole(2), eps)), add(Whole(1), exp(neg(a)))), eps)
logit(a) == log(true_div(a, sub(Whole(1), a)))

\* pymc3.math.logsumexp(x, 0, keepdims=True)
logsumexp(x) ==
    LET x_max == max_0_keepdims(x)
    IN  Broadcast(add, Elemwise(log, sum_0_keepdims(Elemwise(exp, Broadcast(sub, x, x_max)))), x_max)

----------------------------------------------------------------------------
(* Transform: the abstract base.                                           *)

Transform_forward(self, x) == Raise("NotImplementedError")
\* a base whose backward hands its argument back
Transform_backward_default(self, z) == z
Transform_backward(self, z) == Raise("NotImplementedError")
Transform_jacobian_det(self, x) == Raise("NotImplementedError")

\* self.op(x): the body of the class that supplies `op` runs on the instance
RECURSIVE Apply(_, _, _)
forward(self, x) == Apply(self, "forward", x)
backward(self, x) == Apply(self, "backward", x)
jacobian_det(self, x) == Apply(self, "jacobian_det", x)

\* gradient(aet.sum(self.backward(x)), [x]) for the backward the default
\* jacobian_det is reached with: the elementwise derivative of invlogit
gradient_sum_backward(self, x) ==
    Elemwise(LAMBDA a : mul(invlogit(a, Whole(0)), sub(Whole(1), invlogit(a, Whole(0)))), x)

ElemwiseTransform_jacobian_det(self, x) ==
    LET b == backward(self, x)
    IN  IF IsExc(b) THEN b
        ELSE LET grad == Tensor(x.shape, gradient_sum_backward(self, x).data)
             IN  Elemwise(log, Elemwise(abs_, grad))

----------------------------------------------------------------------------
(* The concrete transforms.                                                *)

Log__init__ == [cls |-> "Log", name |-> "log"]
\* a backward that forgets the exponential
Log_backward_identity(self, x) == x
Log_backward(self, x) == Elemwise(exp, x)
Log_forward(self, x) == Elemwise(log, x)
Log_jacobian_det(self, x) == x

LogExpM1__init__ == [cls |-> "LogExpM1", name |-> "log_exp_m1"]
LogExpM1_backward(self, x) == Elemwise(softplus, x)
LogExpM1_forward(self, x) ==
    Broadcast(add, Elemwise(log, Broadcast(sub, Scalar(Whole(1)), Elemwise(exp, Elemwise(neg, x)))), x)
LogExpM1_jacobian_det(self, x) == Elemwise(neg, Elemwise(softplus, Elemwise(neg, x)))

LogOdds__init__ == [cls |-> "LogOdds", name |-> "logodds"]
LogOdds_backward(self, x) == Elemwise(LAMBDA a : invlogit(a, Whole(0)), x)
LogOdds_forward(self, x) == Elemwise(logit, x)

Interval__init__(a, b) == [cls |-> "Interval", name |-> "interval", a |-> Scalar(a), b |-> Scalar(b)]
Interval_backward(self, x) ==
    LET a == self.a
        b == self.b
        sigmoid_x == Elemwise(sigmoid, x)
        r == Broadcast(add, Broadcast(mul, sigmoid_x, b),
                            Broadcast(mul, Broadcast(sub, Scalar(Whole(1)), sigmoid_x), a))
    IN  r
Interval_forward(self, x) ==
    LET a == self.a
        b == self.b
    IN  Broadcast(sub, Elemwise(log, Broadcast(sub, x, a)), Elemwise(log, Broadcast(sub, b, x)))
Interval_jacobian_det(self, x) ==
    LET s == Elemwise(softplus, Elemwise(neg, x))
    IN  Broadcast(sub, Broadcast(sub, Elemwise(log, Broadcast(sub, self.b, self.a)),
                                      Broadcast(mul, Scalar(Whole(2)), s)), x)

LowerBound__init__(a) == [cls |-> "LowerBound", name |-> "lowerbound", a |-> Scalar(a)]
LowerBound_backward(self, x) ==
    LET a == self.a
        r == Broadcast(add, Elemwise(exp, x), a)
    IN  r
LowerBound_forward(self, x) ==
    LET a == self.a
    IN  Elemwise(log, Broadcast(sub, x, a))
LowerBound_jacobian_det(self, x) == x

UpperBound__init__(b) == [cls |-> "UpperBound", name |-> "upperbound", b |-> Scalar(b)]
UpperBound_backward(self, x) ==
    LET b == self.b
        r == Broadcast(sub, b, Elemwise(exp, x))
    IN  r
UpperBound_forward(self, x) ==
    LET b == self.b
    IN  Elemwise(log, Broadcast(sub, b, x))
UpperBound_jacobian_det(self, x) == x

Ordered__init__ == [cls |-> "Ordered", name |-> "ordered"]
\* a backward that accumulates y itself in place of exp(y)
Ordered_backward_noexp(self, y) == cumsum(y)
Ordered_backward(self, y) ==
    LET x0 == zeros(y.shape)
        x1 == inc_subtensor_last(x0, 0, 1, index_last(y, 0))
        x2 == inc_subtensor_last(x1, 1, Last(y.shape),
                                 Elemwise(exp, slice_last(y, 1, Last(y.shape))))
    IN  cumsum(x2)
Ordered_forward(self, x) ==
    LET y0 == zeros(x.shape)
        y1 == inc_subtensor_last(y0, 0, 1, index_last(x, 0))
        y2 == inc_subtensor_last(y1, 1, Last(x.shape),
                                 Elemwise(log, Broadcast(sub, slice_last(x, 1, Last(x.shape)),
                                                              slice_last(x, 0, Last(x.shape) - 1))))
    IN  y2
Ordered_jacobian_det(self, y) == sum_last(slice_last(y, 1, Last(y.shape)))

SumTo1__init__ == [cls |-> "SumTo1", name |-> "sumto1"]
SumTo1_backward(self, y) ==
    LET remaining == Broadcast(sub, Scalar(Whole(1)), sum_last_keepdims(y))
    IN  concatenate_last(y, remaining)
SumTo1_forward(self, x) == slice_last(x, 0, Last(x.shape) - 1)
SumTo1_jacobian_det(self, x) ==
    LET y == zeros(x.shape)
    IN  sum_last(y)

NoneValue == [none |-> TRUE]

\* a constructor that tests the truth of eps in place of `is not None`
StickBreaking__init__truthy(eps) ==
    [self |-> [cls |-> "StickBreaking", name |-> "stickbreaking"],
     warned |-> IF eps \notin {NoneValue, Whole(0)} THEN <<"DeprecationWarning">> ELSE <<>>]

\* the instance, and the warnings the constructor emits
StickBreaking__init__(eps) ==
    [self |-> [cls |-> "StickBreaking", name |-> "stickbreaking"],
     warned |-> IF eps # NoneValue THEN <<"DeprecationWarning">> ELSE <<>>]
StickBreaking_forward(self, x_) ==
    LET x == T(x_)
        n == x.shape[1]
        lx == Elemwise(log, x)
        shift == Broadcast(true_div, sum_0_keepdims(lx), Scalar(Whole(n)))
        y == Broadcast(sub, drop_last_0(lx), shift)
    IN  floatX(T(y))
StickBreaking_backward(self, y_) ==
    LET y0 == T(y_)
        y == concatenate(y0, Elemwise(neg, sum_0_keepdims(y0)))
        e_y == Elemwise(exp, Broadcast(sub, y, max_0_keepdims(y)))
        x == Broadcast(true_div, e_y, sum_0_keepdims(e_y))
    IN  floatX(T(x))
StickBreaking_jacobian_det(self, y_) ==
    LET y == T(y_)
        Km1 == y.shape[1] + 1
        sy == sum_0_keepdims(y)
        r == concatenate(Broadcast(add, y, sy), zeros(sy.shape))
        sr == logsumexp(r)
        d == Broadcast(sub, Broadcast(add, Scalar(log(Whole(Km1))),
                                           Broadcast(mul, Scalar(Whole(Km1)), sy)),
                            Broadcast(mul, Scalar(Whole(Km1)), sr))
    IN  T(sum_0(d))

Circular__init__ == [cls |-> "Circular", name |-> "circular"]
Circular_backward(self, y) == Elemwise(LAMBDA a : arctan2(sin(a), cos(a)), y)
Circular_forward(self, x) == x
Circular_jacobian_det(self, x) == zeros(x.shape)

\* np.arange(1, n + 1).cumsum() - 1
CholeskyCovPacked__init__(n) ==
    [cls |-> "CholeskyCovPacked", name |-> "cholesky-cov-packed",
     diag_idxs |-> [i \in 1..n |-> ((i * (i + 1)) \div 2) - 1]]
\* a backward that exponentiates every entry
CholeskyCovPacked_backward_all(self, x) == Elemwise(exp, x)
CholeskyCovPacked_backward(self, x) ==
    advanced_set_subtensor1(x, Elemwise(exp, advanced_subtensor1(x, self.diag_idxs)), self.diag_idxs)
CholeskyCovPacked_forward(self, y) ==
    advanced_set_subtensor1(y, Elemwise(log, advanced_subtensor1(y, self.diag_idxs)), self.diag_idxs)
CholeskyCovPacked_jacobian_det(self, y) == sum_all(advanced_subtensor1(y, self.diag_idxs))

----------------------------------------------------------------------------
(* Chain.  A call is a frame of locals; one step is one loop iteration,    *)
(* and yields the frame and the instance as the iteration leaves them.     *)

RECURSIVE JoinNames(_)
JoinNames(ts) ==
    IF ts = <<>> THEN ""
    ELSE IF Len(ts) = 1 THEN ts[1].name
    ELSE ts[1].name \o "+" \o JoinNames(Tail(ts))

Chain__init__(transform_list) ==
    [cls |-> "Chain", transform_list |-> transform_list, name |-> JoinNames(transform_list)]

\* the locals on entry
NewFrame(self, op, arg) ==
    [op |-> op, arg |-> arg, pc |-> "loop",
     i |-> IF self.cls = "Chain" /\ op # "forward" THEN Len(self.transform_list) ELSE 1,
     y |-> arg, det_list |-> <<>>, ndim0 |-> IF arg = NoneValue THEN 0 ELSE ndim(arg),
     det |-> Scalar(Whole(0)), ret |-> NoneValue, src |-> NoneValue, dist |-> NoneValue]

Finish(fr, r) == [fr EXCEPT !.pc = "done", !.ret = r]

\* for transf in self.transform_list: y = transf.forward(y)
Chain_forward_body(fr, y) ==
    IF IsExc(y) THEN Finish(fr, y) ELSE [fr EXCEPT !.y = y, !.i = fr.i + 1]
\* a forward that returns after its first child
Chain_forward_step_once(self, fr) ==
    [self |-> self,
     fr |-> IF fr.i > 1 \/ fr.i > Len(self.transform_list) THEN Finish(fr, fr.y)
            ELSE Chain_forward_body(fr, forward(self.transform_list[fr.i], fr.y))]
Chain_forward_step(self, fr) ==
    [self |-> self,
     fr |-> IF fr.i > Len(self.transform_list) THEN Finish(fr, fr.y)
            ELSE Chain_forward_body(fr, forward(self.transform_list[fr.i], fr.y))]

\* for transf in reversed(self.transform_list): x = transf.backward(x)
Chain_backward_body(fr, x) ==
    IF IsExc(x) THEN Finish(fr, x) ELSE [fr EXCEPT !.y = x, !.i = fr.i - 1]
\* a backward that consumes self.transform_list as it walks it
Chain_backward_step_popping(self, fr) ==
    IF self.transform_list = <<>> THEN [self |-> self, fr |-> Finish(fr, fr.y)]
    ELSE [self |-> [self EXCEPT !.transform_list = Front(@)],
          fr |-> Chain_backward_body(fr, backward(Last(self.transform_list), fr.y))]
Chain_backward_step(self, fr) ==
    [self |-> self,
     fr |-> IF fr.i < 1 \/ fr.i > Len(self.transform_list) THEN Finish(fr, fr.y)
            ELSE Chain_backward_body(fr, backward(self.transform_list[fr.i], fr.y))]

\* the two loops of Chain.jacobian_det: the body of the first, given what
\* transf.jacobian_det(y) and transf.backward(y) return, and of the second
Chain_jacobian_det_body(fr, det_, y) ==
    IF IsExc(det_) THEN Finish(fr, det_)
    ELSE IF IsExc(y) THEN Finish(fr, y)
    ELSE [fr EXCEPT !.det_list = Append(@, det_), !.y = y,
                    !.ndim0 = IF ndim(det_) < @ THEN ndim(det_) ELSE @,
                    !.i = fr.i - 1]
\* a second loop that adds every value as it is
Chain_jacobian_det_sum_unreduced(fr, det_) ==
    [fr EXCEPT !.det = Broadcast(add, @, det_), !.i = fr.i + 1]
Chain_jacobian_det_sum(fr, det_) ==
    [fr EXCEPT !.det = IF ndim(det_) > fr.ndim0
                       THEN Broadcast(add, @, sum_last(det_))
                       ELSE Broadcast(add, @, det_),
               !.i = fr.i + 1]
Chain_jacobian_det_step(self, fr) ==
    [self |-> self,
     fr |-> IF fr.pc = "loop"
            THEN IF fr.i < 1 \/ fr.i > Len(self.transform_list)
                 THEN [fr EXCEPT !.pc = "sum", !.i = 1]
                 ELSE Chain_jacobian_det_body(fr, jacobian_det(self.transform_list[fr.i], fr.y),
                                                  backward(self.transform_list[fr.i], fr.y))
            ELSE IF fr.i > Len(fr.det_list) THEN Finish(fr, fr.det)
                 ELSE Chain_jacobian_det_sum(fr, fr.det_list[fr.i])]

Chain_step(self, fr) ==
    CASE fr.op = "forward" -> Chain_forward_step(self, fr)
      [] fr.op = "backward" -> Chain_backward_step(self, fr)
      [] OTHER -> Chain_jacobian_det_step(self, fr)

\* a call run from entry to return with nothing interleaved
RECURSIVE Run(_, _)
Run(self, fr) ==
    IF fr.pc = "done" THEN fr.ret
    ELSE LET s == Chain_step(self, fr) IN Run(s.self, s.fr)

Chain_forward(self, x) == Run(self, NewFrame(self, "forward", x))
Chain_backward(self, y) == Run(self, NewFrame(self, "backward", y))
Chain_jacobian_det(self, y) == Run(self, NewFrame(self, "jacobian_det", y))

----------------------------------------------------------------------------
(* TransformedDistribution.  A base distribution is a default value and a  *)
(* log-density: one value per element, or one per trailing vector.         *)

Dist_logp(dist, v) ==
    IF dist.kind = "univariate" THEN Elemwise(neg, v) ELSE Elemwise(neg, sum_last(v))

\* v.type with v = None
GetAttrType(v) == IF v = NoneValue THEN Raise("AttributeError") ELSE v.type

\* what the constructor leaves: the exception it raises (or NoneValue), the
\* value forward returned, and the fields assigned on self so far
TransformedDistribution__init__body(dist, transform, testval) ==
    LET v == NoneValue
        type == GetAttrType(v)
    IN  IF IsExc(testval)
        THEN [raised |-> testval, testval |-> NoneValue, self |-> [cls |-> "TransformedDistribution"]]
        ELSE IF IsExc(type)
        THEN [raised |-> type, testval |-> testval,
              self |-> [cls |-> "TransformedDistribution", dist |-> dist, transform_used |-> transform]]
        ELSE [raised |-> NoneValue, testval |-> testval,
              self |-> [cls |-> "TransformedDistribution", dist |-> dist,
                        transform_used |-> transform, type |-> type]]
TransformedDistribution__init__(dist, transform) ==
    TransformedDistribution__init__body(dist, transform, forward(transform, dist.default))

TransformedDistribution_logp_nojac(self, x) ==
    LET b == backward(self.transform_used, x)
    IN  IF IsExc(b) THEN b ELSE Dist_logp(self.dist, b)

\* a logp that never sums the base log-density
TransformedDistribution_logp_unsummed(self, x) ==
    LET logp_nojac == TransformedDistribution_logp_nojac(self, x)
        jac == IF IsExc(logp_nojac) THEN logp_nojac ELSE jacobian_det(self.transform_used, x)
    IN  IF IsExc(jac) THEN jac ELSE Broadcast(add, logp_nojac, jac)

TransformedDistribution_logp(self, x) ==
    LET logp_nojac == TransformedDistribution_logp_nojac(self, x)
        jac == IF IsExc(logp_nojac) THEN logp_nojac ELSE jacobian_det(self.transform_used, x)
    IN  IF IsExc(jac) THEN jac
        ELSE IF ndim(logp_nojac) > ndim(jac)
             THEN Broadcast(add, sum_last(logp_nojac), jac)
             ELSE Broadcast(add, logp_nojac, jac)

----------------------------------------------------------------------------
(* Method dispatch.                                                        *)

Apply(self, op, x) ==
    LET c == Resolve(self.cls, op)
    IN  CASE c = "TransformedDistribution" ->
               IF op = "logp" THEN TransformedDistribution_logp(self, x)
               ELSE TransformedDistribution_logp_nojac(self, x)
          [] op = "forward" ->
               CASE c = "Log" -> Log_forward(self, x)
                 [] c = "LogExpM1" -> LogExpM1_forward(self, x)
                 [] c = "LogOdds" -> LogOdds_forward(self, x)
                 [] c = "Interval" -> Interval_forward(self, x)
                 [] c = "LowerBound" -> LowerBound_forward(self, x)
                 [] c = "UpperBound" -> UpperBound_forward(self, x)
                 [] c = "Ordered" -> Ordered_forward(self, x)
                 [] c = "SumTo1" -> SumTo1_forward(self, x)
                 [] c = "StickBreaking" -> StickBreaking_forward(self, x)
                 [] c = "Circular" -> Circular_forward(self, x)
                 [] c = "CholeskyCovPacked" -> CholeskyCovPacked_forward(self, x)
                 [] c = "Chain" -> Chain_forward(self, x)
                 [] OTHER -> Transform_forward(self, x)
          [] op = "backward" ->
               CASE c = "Log" -> Log_backward(self, x)
                 [] c = "LogExpM1" -> LogExpM1_backward(self, x)
                 [] c = "LogOdds" -> LogOdds_backward(self, x)
                 [] c = "Interval" -> Interval_backward(self, x)
                 [] c = "LowerBound" -> LowerBound_backward(self, x)
                 [] c = "UpperBound" -> UpperBound_backward(self, x)
                 [] c = "Ordered" -> Ordered_backward(self, x)
                 [] c = "SumTo1" -> SumTo1_backward(self, x)
                 [] c = "StickBreaking" -> StickBreaking_backward(self, x)
                 [] c = "Circular" -> Circular_backward(self, x)
                 [] c = "CholeskyCovPacked" -> CholeskyCovPacked_backward(self, x)
                 [] c = "Chain" -> Chain_backward(self, x)
                 [] OTHER -> Transform_backward(self, x)
          [] OTHER ->
               CASE c = "Log" -> Log_jacobian_det(self, x)
                 [] c = "LogExpM1" -> LogExpM1_jacobian_det(self, x)
                 [] c = "ElemwiseTransform" -> ElemwiseTransform_jacobian_det(self, x)
                 [] c = "Interval" -> Interval_jacobian_det(self, x)
                 [] c = "LowerBound" -> LowerBound_jacobian_det(self, x)
                 [] c = "UpperBound" -> UpperBound_jacobian_det(self, x)
                 [] c = "Ordered" -> Ordered_jacobian_det(self, x)
                 [] c = "SumTo1" -> SumTo1_jacobian_det(self, x)
                 [] c = "StickBreaking" -> StickBreaking_jacobian_det(self, x)
                 [] c = "Circular" -> Circular_jacobian_det(self, x)
                 [] c = "CholeskyCovPacked" -> CholeskyCovPacked_jacobian_det(self, x)
                 [] c = "Chain" -> Chain_jacobian_det(self, x)
                 [] OTHER -> Transform_jacobian_det(self, x)

----------------------------------------------------------------------------
(* The inputs the calls are made with.                                     *)

MaxLen == 3     \* the longest trailing axis
MaxN == 2       \* the largest CholeskyCovPacked dimension
MaxChain == 2   \* the longest transform_list

\* unconstrained values, positive values, values in (0, 1), angles
RealGrid == {Whole(-1), Whole(0), Whole(2)}
PosGrid == {Rat(1, 2), Whole(1), Whole(3)}
UnitGrid == {Rat(1, 4), Rat(1, 2), Rat(2, 3)}
SoftGrid == {Whole(1), Whole(2), Num(0, 1, 3, 1, 0)}
AngleGrid == {HalfPi(-1), HalfPi(0), HalfPi(2), HalfPi(3)}

\* the sequences over S of length n
RECURSIVE SeqsOf(_, _)
SeqsOf(S, n) == IF n = 0 THEN {<<>>} ELSE {Append(q, a) : q \in SeqsOf(S, n - 1), a \in S}

VecsOver(G) == {Vec(v) : v \in UNION {SeqsOf(G, n) : n \in 1..MaxLen}}
Stack(s, t) == Tensor(<<2>> \o s.shape, s.data \o t.data)

\* scalars, vectors, and batches of two vectors (the second row is P of the first)
ElemInputs(G, P(_)) ==
    {Scalar(g) : g \in G} \cup VecsOver(G)
        \cup {Stack(v, Elemwise(P, v)) : v \in {w \in VecsOver(G) : Len(w.data) = 2}}
VecInputs(S, P(_)) == S \cup {Stack(v, P(v)) : v \in {w \in S : Len(w.data) = 2}}

PlusOne(a) == add(a, Whole(1))
Twice(a) == mul(Whole(2), a)
Half(a) == true_div(a, Whole(2))
QuarterTurn(a) == add(a, HalfPi(1))

RealInputs == ElemInputs(RealGrid, PlusOne)
PosInputs == ElemInputs(PosGrid, Twice)
UnitInputs == ElemInputs(UnitGrid, Half)
SoftInputs == ElemInputs(SoftGrid, PlusOne)
AngleInputs == ElemInputs(AngleGrid, QuarterTurn)
StickInputs == {y \in ElemInputs({Whole(-1), Whole(0)}, PlusOne) : ndim(y) >= 1}

\* strictly increasing vectors: a first element and positive increments
OrderedInputs ==
    VecInputs({cumsum(Broadcast(sub, v, Vec(<<Whole(1)>> \o [i \in 1..(Len(v.data) - 1) |-> Whole(0)]))) :
                   v \in VecsOver(PosGrid)},
              LAMBDA v : Elemwise(PlusOne, v))

\* points of the simplex: weights over their sum
Weights == {v \in VecsOver({Whole(1), Whole(2)}) : Len(v.data) >= 2}
Normalise(w) == Broadcast(true_div, w, sum_last_keepdims(w))
IsPow2(k) == OddPart(k) = 1
SimplexInputs == VecInputs({Normalise(w) : w \in Weights}, LAMBDA v : Vec(Reverse(v.data)))
Pow2SimplexInputs ==
    VecInputs({Normalise(w) : w \in {u \in Weights : IsPow2(SumSeq(u.data).n)}},
              LAMBDA v : Vec(Reverse(v.data)))

\* packed triangles: positive on the diagonal, any sign off it
Seq3(G) == CHOOSE q \in [1..3 -> G] : \A i, j \in 1..3 : i # j => q[i] # q[j]
PackedLen(n) == (n * (n + 1)) \div 2
IsDiag(i) == \E k \in 1..(i + 1) : PackedLen(k) - 1 = i
PackedInputs(n, D) ==
    {Vec([i \in 1..PackedLen(n) |->
            IF IsDiag(i - 1) THEN Seq3(D)[1 + ((i + s) % 3)]
            ELSE Seq3(RealGrid)[1 + ((i + s) % 3)]]) : s \in 0..2}

\* batches of packed triangles, one triangle per column
\* (backward exponentiates the diagonal and Log.backward the result; a zero
\* diagonal keeps both within the numbers represented)
ZeroDiag(v) == Vec([i \in 1..Len(v.data) |-> IF IsDiag(i - 1) THEN Whole(0) ELSE v.data[i]])
PackedBatches(n) ==
    {T(Stack(ZeroDiag(p[1]), ZeroDiag(p[2]))) :
        p \in {q \in PackedInputs(n, RealGrid) \X PackedInputs(n, RealGrid) : q[1] # q[2]}}
Batches(self, op) ==
    IF self.cls = "CholeskyCovPacked" /\ op = "jacobian_det"
    THEN PackedBatches(Len(self.diag_idxs)) ELSE {}

\* what a call may be made with: x strictly inside the domain for forward, any
\* unconstrained value for backward and jacobian_det
LeafInputs(self, op) ==
    LET c == self.cls
    IN  CASE c = "CholeskyCovPacked" ->
               PackedInputs(Len(self.diag_idxs), IF op = "forward" THEN PosGrid ELSE RealGrid)
          [] c = "Circular" -> AngleInputs
          [] c \in {"Transform", "ElemwiseTransform"} -> RealInputs
          [] op # "forward" ->
               IF c = "StickBreaking" THEN StickInputs
               ELSE IF c \in {"Ordered", "SumTo1"} THEN {y \in RealInputs : ndim(y) >= 1}
               ELSE RealInputs
          [] c = "Log" -> PosInputs
          [] c = "LogExpM1" -> SoftInputs
          [] c = "LogOdds" -> UnitInputs
          [] c = "Interval" ->
               {Broadcast(add, self.a, Broadcast(mul, Broadcast(sub, self.b, self.a), u)) : u \in UnitInputs}
          [] c = "LowerBound" -> {Broadcast(add, self.a, p) : p \in PosInputs}
          [] c = "UpperBound" -> {Broadcast(sub, self.b, p) : p \in PosInputs}
          [] c = "Ordered" -> OrderedInputs
          [] c = "SumTo1" -> SimplexInputs
          [] OTHER -> Pow2SimplexInputs

All(t, P(_)) == \A k \in 1..Len(t.data) : P(t.data[k])
\* aet.exp of a stays within 32-bit integers
ExpAble(a) == a.d = 1 /\ a.h = 0 /\ a.n \in -3..3
Positive(a) == a.h = 0 /\ Sign(a) > 0
Below(a, b) == sub(b, a).h = 0 /\ Sign(sub(b, a)) > 0

\* the child a walk of the chain visits first, the chain of the others, and
\* the value the walk hands on
FirstChild(self, op) ==
    IF op = "forward" THEN Head(self.transform_list) ELSE Last(self.transform_list)
OtherChildren(self, op) ==
    Chain__init__(IF op = "forward" THEN Tail(self.transform_list) ELSE Front(self.transform_list))
HandedOn(self, op, x) ==
    Apply(FirstChild(self, op), IF op = "forward" THEN "forward" ELSE "backward", x)

\* the operation's result on x is representable (and, for forward, x is
\* strictly inside the transform's domain)
RECURSIVE Defined(_, _, _)
DefinedOnRest(self, op, y) == IsExc(y) \/ Defined(OtherChildren(self, op), op, y)
Defined(self, op, x) ==
    LET c == self.cls
        Rows == 0..(NRows(x) - 1)
    IN  CASE c \in {"Transform", "ElemwiseTransform"} -> TRUE
          [] c = "Chain" ->
               \/ self.transform_list = <<>>
               \/ /\ Defined(FirstChild(self, op), op, x)
                  /\ op = "jacobian_det" => Defined(FirstChild(self, op), "backward", x)
                  /\ DefinedOnRest(self, op, HandedOn(self, op, x))
          [] c = "Circular" -> All(x, LAMBDA a : a.n = 0 /\ a.ln = 1 /\ a.ld = 1)
          [] c = "CholeskyCovPacked" ->
               /\ ndim(x) >= 1
               /\ Head(x.shape) = PackedLen(Len(self.diag_idxs))
               /\ All(advanced_subtensor1(x, self.diag_idxs),
                      LAMBDA a : IF op = "forward" THEN IsRat(a) /\ Positive(a)
                                 ELSE op = "backward" => ExpAble(a))
          [] c \in {"Ordered", "SumTo1", "StickBreaking"} /\ ndim(x) = 0 -> FALSE
          [] op = "forward" ->
               CASE c = "Log" -> All(x, LAMBDA a : IsRat(a) /\ Positive(a))
                 [] c = "LogExpM1" -> All(x, LAMBDA a : ExpAble(a) /\ Positive(a))
                 [] c = "LogOdds" -> All(x, LAMBDA a : IsRat(a) /\ Positive(a) /\ Below(a, Whole(1)))
                 [] c = "Interval" ->
                      All(x, LAMBDA a : IsRat(a) /\ Below(self.a.data[1], a) /\ Below(a, self.b.data[1]))
                 [] c = "LowerBound" -> All(x, LAMBDA a : IsRat(a) /\ Below(self.a.data[1], a))
                 [] c = "UpperBound" -> All(x, LAMBDA a : IsRat(a) /\ Below(a, self.b.data[1]))
                 [] c = "Ordered" ->
                      /\ All(x, IsRat)
                      /\ \A r \in Rows : \A i \in 1..(Last(x.shape) - 1) : Below(Row(x, r)[i], Row(x, r)[i + 1])
                 [] c = "SumTo1" ->
                      /\ Last(x.shape) >= 2
                      /\ All(x, LAMBDA a : IsRat(a) /\ Positive(a))
                      /\ \A r \in Rows : SumSeq(Row(x, r)) = Whole(1)
                 [] OTHER ->
                      /\ Last(x.shape) >= 2
                      /\ All(x, LAMBDA a : IsRat(a) /\ Positive(a) /\ IsPow2(a.n) /\ IsPow2(a.d))
                      /\ \A r \in Rows : SumSeq(Row(x, r)) = Whole(1)
          [] c \in {"Log", "LowerBound", "UpperBound"} -> op = "backward" => All(x, ExpAble)
          [] c \in {"LogExpM1", "LogOdds", "Interval"} -> All(x, ExpAble)
          [] c = "Ordered" -> op = "backward" => All(slice_last(x, 1, Last(x.shape)), ExpAble)
          [] c = "SumTo1" -> TRUE
          [] OTHER -> All(x, IsRat) /\ All(Broadcast(add, x, sum_last_keepdims(x)), IsInt)

RECURSIVE Inputs(_, _)
Inputs(self, op) ==
    IF self.cls # "Chain" THEN LeafInputs(self, op)
    ELSE IF self.transform_list = <<>> THEN RealInputs
    ELSE {x \in Inputs(FirstChild(self, op), op) \cup Batches(FirstChild(self, op), op) :
            Defined(self, op, x)}

----------------------------------------------------------------------------
(* The program: one shared transform instance, constructed once, and the   *)
(* threads that call it.                                                   *)

VARIABLES
    inst,       \* the shared transform instance, NoneValue before construction
    warnings,   \* the warnings emitted so far
    frames      \* thread -> the locals of its call in progress

vars == <<inst, warnings, frames>>

Threads == {1, 2}
Ops == {"forward", "backward", "jacobian_det"}

IdleFrame ==
    [op |-> "none", arg |-> NoneValue, pc |-> "idle", i |-> 0, y |-> NoneValue,
     det_list |-> <<>>, ndim0 |-> 0, det |-> Scalar(Whole(0)), ret |-> NoneValue,
     src |-> NoneValue, dist |-> NoneValue]

Transform__init__ == [cls |-> "Transform", name |-> ""]
ElemwiseTransform__init__ == [cls |-> "ElemwiseTransform", name |-> ""]

\* the instances the program constructs
Leaves ==
    {Transform__init__, ElemwiseTransform__init__, Log__init__, LogExpM1__init__,
     LogOdds__init__, Interval__init__(Whole(-1), Whole(2)), LowerBound__init__(Whole(-1)),
     UpperBound__init__(Whole(2)), Ordered__init__, SumTo1__init__, Circular__init__}
        \cup {CholeskyCovPacked__init__(n) : n \in 1..MaxN}
EpsValues == {NoneValue, Whole(0), Rat(1, 10)}
ChainLeaves ==
    {Transform__init__, Log__init__, Ordered__init__, SumTo1__init__,
     CholeskyCovPacked__init__(2)}
TransformLists == UNION {SeqsOf(ChainLeaves, n) : n \in 0..MaxChain}

\* the base distributions an adapter is built over: one default value each
OneOf(S) == IF S = {} THEN {} ELSE {CHOOSE x \in S : TRUE}
DefaultsFor(self) == OneOf({x \in Inputs(self, "forward") : ndim(x) = 1})
DistsFor(self) ==
    {[kind |-> k, default |-> x] : k \in {"univariate", "multivariate"}, x \in DefaultsFor(self)}

Init ==
    /\ inst = NoneValue
    /\ warnings = <<>>
    /\ frames = [t \in Threads |-> IdleFrame]

ConstructLeaf ==
    /\ inst = NoneValue
    /\ \E self \in Leaves : inst' = self
    /\ UNCHANGED <<warnings, frames>>

ConstructStickBreaking ==
    /\ inst = NoneValue
    /\ \E eps \in EpsValues :
         LET r == StickBreaking__init__(eps)
         IN  inst' = r.self /\ warnings' = warnings \o r.warned
    /\ UNCHANGED frames

ConstructChain ==
    /\ inst = NoneValue
    /\ \E transform_list \in TransformLists : inst' = Chain__init__(transform_list)
    /\ UNCHANGED <<warnings, frames>>

\* a thread enters forward, backward or jacobian_det
Call(t) ==
    /\ inst # NoneValue
    /\ frames[t].pc = "idle"
    /\ \E op \in Ops : \E x \in Inputs(inst, op) :
         frames' = [frames EXCEPT ![t] = NewFrame(inst, op, x)]
    /\ UNCHANGED <<inst, warnings>>

\* a thread hands the value forward returned to backward
CallOnResult(t) ==
    /\ frames[t].pc = "done"
    /\ frames[t].op = "forward"
    /\ ~IsExc(frames[t].ret)
    /\ Defined(inst, "backward", frames[t].ret) = TRUE
    /\ frames' = [frames EXCEPT ![t] =
                    [NewFrame(inst, "backward", frames[t].ret) EXCEPT
                        !.src = [op |-> "forward", arg |-> frames[t].arg]]]
    /\ UNCHANGED <<inst, warnings>>

\* TransformedDistribution(dist, inst) and the adapter's logp, logp_nojac
ConstructTD(t) ==
    /\ inst # NoneValue
    /\ frames[t].pc = "idle"
    /\ \E dist \in DistsFor(inst) :
         frames' = [frames EXCEPT ![t] =
                      [NewFrame(inst, "TransformedDistribution", NoneValue) EXCEPT !.dist = dist]]
    /\ UNCHANGED <<inst, warnings>>

Compatible(s, t) ==
    \A k \in 1..(IF Len(s) < Len(t) THEN Len(s) ELSE Len(t)) :
        LET a == s[Len(s) + 1 - k]
            b == t[Len(t) + 1 - k]
        IN  a = b \/ a = 1 \/ b = 1

LogpShapes(kind, b, j) ==
    IsExc(b) \/ IsExc(j) \/
        /\ kind = "multivariate" => ndim(b) >= 1
        /\ LET l == IF kind = "multivariate" THEN Front(b.shape) ELSE b.shape
           IN  Compatible(IF Len(l) > ndim(j) THEN Front(l) ELSE l, j.shape)
LogpDefined(self, kind, x) ==
    /\ \A op \in {"backward", "jacobian_det"} : Defined(self, op, x)
    /\ LogpShapes(kind, backward(self, x), jacobian_det(self, x))

CallLogp(t) ==
    /\ inst # NoneValue
    /\ frames[t].pc = "idle"
    /\ \E op \in {"logp", "logp_nojac"} : \E dist \in DistsFor(inst) :
       \E x \in {y \in Inputs(inst, "backward") : LogpDefined(inst, dist.kind, y)} :
         frames' = [frames EXCEPT ![t] = [NewFrame(inst, op, x) EXCEPT !.dist = dist]]
    /\ UNCHANGED <<inst, warnings>>

\* a call that is no loop of Chain runs in one step
Leaf_call(self, fr) ==
    [self |-> self,
     fr |-> Finish(fr, IF fr.op = "TransformedDistribution"
                       THEN TransformedDistribution__init__(fr.dist, self)
                       ELSE Apply(IF fr.op \in Ops THEN self
                                  ELSE [cls |-> "TransformedDistribution", dist |-> fr.dist,
                                        transform_used |-> self],
                                  fr.op, fr.arg))]

\* the thread's step leaves the instance and the thread's locals as s has them
Step(t, s) == inst' = s.self /\ frames' = [frames EXCEPT ![t] = s.fr]

LeafCall(t) ==
    /\ frames[t].pc = "loop"
    /\ ~(inst.cls = "Chain" /\ frames[t].op \in Ops)
    /\ Step(t, Leaf_call(inst, frames[t]))
    /\ UNCHANGED warnings

\* one iteration of a loop of Chain.forward, Chain.backward or Chain.jacobian_det
ChainStep(t) ==
    /\ frames[t].pc \in {"loop", "sum"}
    /\ inst.cls = "Chain" /\ frames[t].op \in Ops
    /\ Step(t, Chain_step(inst, frames[t]))
    /\ UNCHANGED warnings

Return(t) ==
    /\ frames[t].pc = "done"
    /\ frames' = [frames EXCEPT ![t] = IdleFrame]
    /\ UNCHANGED <<inst, warnings>>

Next ==
    \/ ConstructLeaf
    \/ ConstructStickBreaking
    \/ ConstructChain
    \/ Call(1)
    \/ CallOnResult(1)
    \/ ConstructTD(1)
    \/ CallLogp(1)
    \/ LeafCall(1)
    \/ ChainStep(1)
    \/ Return(1)

Spec == Init /\ [][Next]_vars

----------------------------------------------------------------------------
(* Calls made concurrently on one shared instance.                         *)

ConcInstances ==
    {Interval__init__(Whole(-1), Whole(2)),
     Chain__init__(<<Log__init__, Ordered__init__>>),
     Chain__init__(<<Interval__init__(Whole(-1), Whole(2)), SumTo1__init__>>)}
ConcInputs(self, op) == {x \in Inputs(self, op) : x.shape = <<2>>}

ConcInit ==
    /\ inst \in ConcInstances
    /\ warnings = <<>>
    /\ frames = [t \in Threads |-> IdleFrame]

ConcCall(t) ==
    /\ frames[t].pc = "idle"
    /\ \E op \in Ops : \E x \in ConcInputs(inst, op) :
         frames' = [frames EXCEPT ![t] = NewFrame(inst, op, x)]
    /\ UNCHANGED <<inst, warnings>>

ConcNext == \E t \in Threads : ConcCall(t) \/ LeafCall(t) \/ ChainStep(t) \/ Return(t)

ConcSpec == ConcInit /\ [][ConcNext]_vars

----------------------------------------------------------------------------
(* The properties checked.                                                 *)

Is(cls) == inst # NoneValue /\ inst.cls = cls
Done(t, op) == frames[t].pc = "done" /\ frames[t].op = op
Concrete(ts) == \A k \in 1..Len(ts) : ts[k].cls # "Transform"

\* Tn.forward(...T1.forward(x)) and T1.backward(...Tn.backward(y))
RECURSIVE LeftToRight(_, _)
LeftToRight(ts, x) ==
    IF ts = <<>> \/ IsExc(x) THEN x ELSE LeftToRight(Tail(ts), forward(Head(ts), x))
RECURSIVE RightToLeft(_, _)
RightToLeft(ts, y) ==
    IF ts = <<>> \/ IsExc(y) THEN y ELSE RightToLeft(Front(ts), backward(Last(ts), y))

\* C1: Chain.forward applies the children left to right and Chain.backward
\* right to left: each returns the nested application of its children.
C1_ChainOrder ==
    \A t \in Threads : (Is("Chain") /\ frames[t].pc = "done") =>
        /\ frames[t].op = "forward" =>
             frames[t].ret = LeftToRight(inst.transform_list, frames[t].arg)
        /\ frames[t].op = "backward" =>
             frames[t].ret = RightToLeft(inst.transform_list, frames[t].arg)
C1_Witness ==
    \E t \in Threads :
        /\ Is("Chain") /\ Len(inst.transform_list) = 2
        /\ inst.transform_list[1] # inst.transform_list[2]
        /\ Done(t, "forward") /\ ~IsExc(frames[t].ret)
        /\ frames[t].ret # forward(inst.transform_list[1], frames[t].arg)

\* atan2(sin(x), cos(x)), elementwise
Wrapped(x) == Elemwise(LAMBDA a : arctan2(sin(a), cos(a)), x)

\* C2: backward of what forward returned for x is x; for Circular it is x
\* wrapped, atan2(sin(x), cos(x)).
C2_RoundTrip ==
    \A t \in Threads : (Done(t, "backward") /\ frames[t].src # NoneValue) =>
        frames[t].ret = IF Is("Circular") THEN Wrapped(frames[t].src.arg) ELSE frames[t].src.arg
C2_Witness ==
    \E t \in Threads :
        /\ Is("Chain") /\ Len(inst.transform_list) = 2
        /\ Done(t, "backward") /\ frames[t].src # NoneValue
        /\ frames[t].arg # frames[t].src.arg
        /\ frames[t].ret = frames[t].src.arg

\* the per-child values of the reverse walk, the least dimensionality, and
\* the total with every value above it summed over its trailing axis
RECURSIVE Walk(_, _)
Walk(ts, y) ==
    IF ts = <<>> THEN <<>>
    ELSE <<jacobian_det(Last(ts), y)>> \o Walk(Front(ts), backward(Last(ts), y))
MinNdim(y, dets) ==
    CHOOSE m \in {ndim(y)} \cup {ndim(dets[k]) : k \in 1..Len(dets)} :
        m <= ndim(y) /\ \A k \in 1..Len(dets) : m <= ndim(dets[k])
RECURSIVE Total(_, _)
Total(dets, m) ==
    IF dets = <<>> THEN Scalar(Whole(0))
    ELSE Broadcast(add, Total(Front(dets), m),
                   IF ndim(Last(dets)) > m THEN sum_last(Last(dets)) ELSE Last(dets))

\* C3: Chain.jacobian_det(y) adds, over the children in reverse order, each
\* child's jacobian_det at the value its successors' backward produced, a
\* value above the least dimensionality being summed over its trailing axis.
C3_ChainJacobian ==
    \A t \in Threads :
        (Is("Chain") /\ Concrete(inst.transform_list) /\ Done(t, "jacobian_det")) =>
            frames[t].ret = Total(Walk(inst.transform_list, frames[t].arg),
                                  MinNdim(frames[t].arg, Walk(inst.transform_list, frames[t].arg)))
C3_Witness ==
    \E t \in Threads :
        /\ Is("Chain") /\ Len(inst.transform_list) = 2 /\ Concrete(inst.transform_list)
        /\ Done(t, "jacobian_det")
        /\ \E i, j \in 1..2 :
             ndim(Walk(inst.transform_list, frames[t].arg)[i])
                 > ndim(Walk(inst.transform_list, frames[t].arg)[j])

\* base_dist.logp(transform.backward(x)) for the call of thread t
BaseLogp(t) == Dist_logp(frames[t].dist, backward(inst, frames[t].arg))

\* C4: logp_nojac(x) is the base log-density at backward(x); logp(x) adds
\* jacobian_det(x) to it, the base log-density summed over its trailing axis
\* first exactly when its rank exceeds the Jacobian term's.
C4_Logp ==
    \A t \in Threads : (frames[t].pc = "done" /\ ~IsExc(frames[t].ret)) =>
        /\ frames[t].op = "logp_nojac" => frames[t].ret = BaseLogp(t)
        /\ frames[t].op = "logp" =>
             frames[t].ret =
                 Broadcast(add,
                           IF ndim(BaseLogp(t)) > ndim(jacobian_det(inst, frames[t].arg))
                           THEN sum_last(BaseLogp(t)) ELSE BaseLogp(t),
                           jacobian_det(inst, frames[t].arg))
C4_Witness ==
    \E t \in Threads :
        /\ Done(t, "logp") /\ ~IsExc(frames[t].ret)
        /\ ndim(BaseLogp(t)) > ndim(jacobian_det(inst, frames[t].arg))

\* C5: every construction of a TransformedDistribution whose call of forward
\* on the default value returns yields an adapter, raising nothing, that
\* retains dist and transform_used.
C5_ConstructorYieldsAdapter ==
    \A t \in Threads :
        (Done(t, "TransformedDistribution") /\ frames[t].ret.testval # NoneValue) =>
            /\ frames[t].ret.raised = NoneValue
            /\ frames[t].ret.self.dist = frames[t].dist
            /\ frames[t].ret.self.transform_used = inst

\* C6: an operation that resolves to the abstract base, and the elementwise
\* default jacobian_det of a class whose backward resolves to the abstract
\* base, raise NotImplementedError.
C6_NotImplemented ==
    \A t \in Threads :
        (/\ inst # NoneValue /\ frames[t].pc = "done" /\ frames[t].op \in Ops
         /\ \/ Resolve(inst.cls, frames[t].op) = "Transform"
            \/ /\ Resolve(inst.cls, frames[t].op) = "ElemwiseTransform"
               /\ Resolve(inst.cls, "backward") = "Transform")
            => frames[t].ret = Raise("NotImplementedError")
C6_Witness ==
    \E t \in Threads :
        /\ Is("ElemwiseTransform") /\ Done(t, "jacobian_det")
        /\ frames[t].ret = Raise("NotImplementedError")

\* cumsum(1..n) - 1
RECURSIVE Triangular(_)
Triangular(k) == IF k = 0 THEN 0 ELSE k + Triangular(k - 1)
DiagonalIndices(n) == {Triangular(k) - 1 : k \in 1..n}

C7_Entries ==
    \A t \in Threads :
        (Is("CholeskyCovPacked") /\ frames[t].pc = "done" /\ frames[t].op \in Ops) =>
        LET n == Len(inst.diag_idxs)
            x == frames[t].arg
            r == frames[t].ret
            D == DiagonalIndices(n)
        IN  /\ D = {0, 2, 5, 9, 14} \cap 0..(Len(x.data) - 1)
            /\ D = {inst.diag_idxs[k] : k \in 1..n}
            /\ Len(x.data) = Triangular(n)
            /\ frames[t].op = "forward" =>
                 /\ r.shape = x.shape
                 /\ \A k \in 0..(Len(x.data) - 1) :
                      r.data[k + 1] = IF k \in D THEN log(x.data[k + 1]) ELSE x.data[k + 1]
            /\ frames[t].op = "backward" =>
                 /\ r.shape = x.shape
                 /\ \A k \in 0..(Len(x.data) - 1) :
                      r.data[k + 1] = IF k \in D THEN exp(x.data[k + 1]) ELSE x.data[k + 1]
            /\ frames[t].op = "jacobian_det" =>
                 r = Scalar(SumSeq([k \in 1..n |-> x.data[Triangular(k)]]))
C7_InputKept ==
    \A t \in Threads :
        (Is("CholeskyCovPacked") /\ frames[t].pc = "loop" /\ frames'[t].pc = "done") =>
            frames'[t].arg = frames[t].arg

\* C7: CholeskyCovPacked.forward and backward replace the entries at the
\* indices cumsum(1..n) - 1 by their log and their exp and pass every other
\* entry through, the vector the call was made with stays as it was, and
\* jacobian_det is the sum of the entries at those indices.
C7_DiagonalOnly == []C7_Entries /\ [][C7_InputKept]_vars
C7_Witness ==
    \E t \in Threads :
        /\ Is("CholeskyCovPacked") /\ Len(inst.diag_idxs) = 2
        /\ Done(t, "backward")
        /\ frames[t].ret.data[1] # frames[t].arg.data[1]
        /\ frames[t].ret.data[2] = frames[t].arg.data[2]

\* C8: no step of a call changes the shared instance, and a call that has
\* returned, whatever was interleaved with it, returned what the same call
\* returns when run alone.
C8_Concurrent ==
    /\ [][inst' = inst]_vars
    /\ [](\A t \in Threads : (frames[t].pc = "done" /\ frames[t].op \in Ops) =>
              frames[t].ret = Apply(inst, frames[t].op, frames[t].arg))
C8_Witness ==
    /\ Is("Chain")
    /\ Done(1, "jacobian_det")
    /\ frames[2].op = "backward" /\ frames[2].pc = "loop" /\ frames[2].i = 1

\* C9: along the trailing axis Ordered.backward(y) starts at y[0], each later
\* element is the one before it plus exp(y[i]), and no element is smaller
\* than the one before it.
C9_OrderedMonotone ==
    \A t \in Threads : (Is("Ordered") /\ Done(t, "backward")) =>
        /\ frames[t].ret.shape = frames[t].arg.shape
        /\ \A r \in 0..(NRows(frames[t].arg) - 1) :
             LET y == Row(frames[t].arg, r)
                 x == Row(frames[t].ret, r)
             IN  /\ x[1] = y[1]
                 /\ \A i \in 2..Len(y) :
                      x[i] = add(x[i - 1], exp(y[i])) /\ Leq(x[i - 1], x[i])
C9_Witness ==
    \E t \in Threads :
        /\ Is("Ordered") /\ Done(t, "backward")
        /\ ndim(frames[t].arg) = 2
        /\ \E k \in 2..Len(Row(frames[t].arg, 1)) : Sign(Row(frames[t].arg, 1)[k]) < 0

\* C10: the constructor of StickBreaking warns, with one DeprecationWarning,
\* exactly when eps is given, builds the same instance whatever eps is, and
\* every operation on the instance returns what it returns on StickBreaking().
C10_EpsIgnored ==
    /\ \A eps \in EpsValues :
         StickBreaking__init__(eps) =
             [self |-> StickBreaking__init__(NoneValue).self,
              warned |-> IF eps = NoneValue THEN <<>> ELSE <<"DeprecationWarning">>]
    /\ \A t \in Threads : (Is("StickBreaking") /\ frames[t].pc = "done" /\ frames[t].op \in Ops) =>
         frames[t].ret = Apply(StickBreaking__init__(NoneValue).self, frames[t].op, frames[t].arg)
C10_Witness ==
    \E t \in Threads :
        /\ Is("StickBreaking") /\ warnings = <<"DeprecationWarning">>
        /\ Done(t, "jacobian_det") /\ ~IsExc(frames[t].ret)

\* C11: the value Chain.jacobian_det returns has the least dimensionality
\* among its input and its children's jacobian_det values, however far
\* above it a child's value lies.
C11_ResultNdim ==
    \A t \in Threads :
        (Is("Chain") /\ Concrete(inst.transform_list) /\ Done(t, "jacobian_det")) =>
            ndim(frames[t].ret) =
                MinNdim(frames[t].arg, Walk(inst.transform_list, frames[t].arg))
====
